---- MODULE Spec2Model ----
(***************************************************************************)
(* A model of dclmic_export/export_dataframes.py: friendlize,              *)
(* save_dfs_as_xl, upload_to_google_sheets, upload_to_sql and              *)
(* make_table_spatial.                                                     *)
(*                                                                         *)
(* A Python str is modelled as a sequence of code points, each code point  *)
(* a one-character TLA+ string ("a", "_", " ", ...).  Two non-ASCII code   *)
(* points are named: IDOT is U+0130 (capital I with dot above) and COMBDOT *)
(* is U+0307 (combining dot above); str.lower() maps U+0130 to the two     *)
(* code points "i" U+0307.                                                 *)
(***************************************************************************)
EXTENDS Integers, Sequences, FiniteSets, TLC

VARIABLES
    \* friendlize called on its own
    f_in, f_out, f_again, f_pc,
    \* the column format resolution of save_dfs_as_xl, on one column
    c_name, c_col, c_col_format, c_num_format, c_pc,
    \* save_dfs_as_xl: its arguments, the loop index, the worksheets added
    list_of_frames, col_format, sheet_names, tab_names, friendly_names,
    i, sheets, xl_pc,
    \* upload_to_google_sheets: its arguments, its position, what it printed,
    \* the external calls it made and the one that failed
    sheet, new_book, clear, g_pc, g_printed, g_calls, g_failed,
    \* upload_to_sql: len(df), its arguments, its position, the loop index,
    \* the database (table, uncommitted and committed rows), the cursor and
    \* connection calls in order, the rows whose INSERT raised, the prints
    df_len, drop, chunk_print_size, q_pc, index, q_table_exists, q_pending,
    q_committed, q_calls, q_failed, q_printed,
    \* make_table_spatial: its position, the table's columns, constraint and
    \* index, the statements attempted, those that raised, the prints
    m_pc, m_table, m_committed, m_attempted, m_raised, m_printed

frVars == <<f_in, f_out, f_again, f_pc>>
fmtVars == <<c_name, c_col, c_col_format, c_num_format, c_pc>>
xlArgs == <<list_of_frames, col_format, sheet_names, tab_names, friendly_names>>
xlVars == <<list_of_frames, col_format, sheet_names, tab_names, friendly_names,
            i, sheets, xl_pc>>
gsArgs == <<sheet, new_book, clear>>
gsVars == <<sheet, new_book, clear, g_pc, g_printed, g_calls, g_failed>>
sqlArgs == <<df_len, drop, chunk_print_size>>
sqlVars == <<df_len, drop, chunk_print_size, q_pc, index, q_table_exists,
             q_pending, q_committed, q_calls, q_failed, q_printed>>
spVars == <<m_pc, m_table, m_committed, m_attempted, m_raised, m_printed>>
vars == <<frVars, fmtVars, xlVars, gsVars, sqlVars, spVars>>

\* the variables of the other functions
notFr == <<fmtVars, xlVars, gsVars, sqlVars, spVars>>
notFmt == <<frVars, xlVars, gsVars, sqlVars, spVars>>
notXl == <<frVars, fmtVars, gsVars, sqlVars, spVars>>
notGs == <<frVars, fmtVars, xlVars, sqlVars, spVars>>
notSql == <<frVars, fmtVars, xlVars, gsVars, spVars>>
notSp == <<frVars, fmtVars, xlVars, gsVars, sqlVars>>

Range(q) == {q[p] : p \in 1..Len(q)}

(***************************************************************************)
(* Python str methods used by the source.                                  *)
(***************************************************************************)
UpperAlpha == <<"A","B","C","D","E","F","G","H","I","J","K","L","M",
                "N","O","P","Q","R","S","T","U","V","W","X","Y","Z">>
LowerAlpha == <<"a","b","c","d","e","f","g","h","i","j","k","l","m",
                "n","o","p","q","r","s","t","u","v","w","x","y","z">>
IDOT == "U+0130"
COMBDOT == "U+0307"

IndexIn(c, q) == CHOOSE p \in 1..Len(q) : q[p] = c

\* str.lower() on one code point: a sequence, since U+0130 lowers to two.
LowerChar(c) ==
    IF c \in Range(UpperAlpha) THEN <<LowerAlpha[IndexIn(c, UpperAlpha)]>>
    ELSE IF c = IDOT THEN <<"i", COMBDOT>>
    ELSE <<c>>

\* the title-case mapping str.capitalize() applies to the first code point
TitleChar(c) ==
    IF c \in Range(LowerAlpha) THEN <<UpperAlpha[IndexIn(c, LowerAlpha)]>>
    ELSE <<c>>

RECURSIVE lower_rec(_)
lower_rec(s) == IF s = <<>> THEN <<>> ELSE LowerChar(Head(s)) \o lower_rec(Tail(s))

\* s.lower() without the lowering: the mutant of lower
lower_kept(s) == s

\* s.lower()
lower(s) == lower_rec(s)

\* x.capitalize(): first code point title-cased, the rest lower-cased
capitalize(x) == IF x = <<>> THEN <<>> ELSE TitleChar(Head(x)) \o lower(Tail(x))

\* s.split("_"): empty segments are kept, "" splits to [""]
RECURSIVE split(_)
split(s) ==
    IF "_" \notin Range(s) THEN <<s>>
    ELSE LET k == CHOOSE p \in 1..Len(s) :
                      s[p] = "_" /\ \A j \in 1..(p - 1) : s[j] # "_"
         IN <<SubSeq(s, 1, k - 1)>> \o split(SubSeq(s, k + 1, Len(s)))

\* " ".join(parts)
RECURSIVE join(_)
join(parts) ==
    IF parts = <<>> THEN <<>>
    ELSE IF Len(parts) = 1 THEN parts[1]
    ELSE parts[1] \o <<" ">> \o join(Tail(parts))

friendlize(s) ==
    LET parts == split(lower(s))
    IN join([p \in 1..Len(parts) |-> capitalize(parts[p])])

\* needle in hay, for two str
Contains(hay, needle) ==
    \E p \in 1..(Len(hay) - Len(needle) + 1) :
        SubSeq(hay, p, p + Len(needle) - 1) = needle

(***************************************************************************)
(* friendlize on its own: it is applied to an input, then to its result.   *)
(***************************************************************************)
MaxLen == 4
Alphabet == {"a", "B", "_", " ", IDOT}

RECURSIVE StringsUpTo(_)
StringsUpTo(n) ==
    IF n = 0 THEN {<<>>}
    ELSE LET shorter == StringsUpTo(n - 1)
         IN shorter \cup {Append(t, c) : t \in {u \in shorter : Len(u) = n - 1}, c \in Alphabet}

s_median_income == <<"m","e","d","i","a","n","_","i","n","c","o","m","e">>
s_Median_Income == <<"M","e","d","i","a","n"," ","I","n","c","o","m","e">>
s_Median_income == <<"M","e","d","i","a","n"," ","i","n","c","o","m","e">>
s_median_hh_income ==
    <<"m","e","d","i","a","n","_","h","h","_","i","n","c","o","m","e">>

FriendlizeInputs ==
    StringsUpTo(MaxLen) \cup {s_median_income, s_Median_Income, s_median_hh_income}

FrStart ==
    /\ f_in \in FriendlizeInputs
    /\ f_out = <<>>
    /\ f_again = <<>>
    /\ f_pc = "start"

\* friendlize is not being called
FrIdle ==
    /\ f_in = <<>>
    /\ f_out = <<>>
    /\ f_again = <<>>
    /\ f_pc = "idle"

FriendlizeCall ==
    /\ f_pc = "start"
    /\ f_out' = friendlize(f_in)
    /\ f_pc' = "once"
    /\ UNCHANGED <<f_in, f_again>>
    /\ UNCHANGED notFr

FriendlizeAgain ==
    /\ f_pc = "once"
    /\ f_again' = friendlize(f_out)
    /\ f_pc' = "twice"
    /\ UNCHANGED <<f_in, f_out>>
    /\ UNCHANGED notFr

(***************************************************************************)
(* save_dfs_as_xl.                                                         *)
(*                                                                         *)
(* A DataFrame is a record [columns, nrows], each column a record          *)
(* [name, dtype, values].  A float64 value is NaN or a record              *)
(* [whole, frac] standing for whole + frac/100 with frac in 0..99, so      *)
(* that x % 1 is frac/100; an int64 value is a record [int], any other a   *)
(* record [str].  A format object is a record [num_format]; None is the    *)
(* absence of one.  The column widths handed to set_column are not         *)
(* modelled.                                                               *)
(***************************************************************************)
NaN == [nan |-> TRUE]
None == [none |-> TRUE]
Flt(w, f) == [whole |-> w, frac |-> f]
IntCell(n) == [int |-> n]
StrCell(x) == [str |-> x]

\* the -9999 of series.fillna(-9999)
FillValue == -9999
\* the 31 of [:31]
SheetNameMax == 31
\* to_excel(startrow=3, startcol=1), worksheet.write(2, ...), write(1, 1, ...)
StartRow == 3
StartCol == 1
HeaderRow == 2
TitleRow == 1

STYLEBOOK ==
    [thousands    |-> "#,###",
     currency     |-> "$#,##0.00",
     currency_int |-> "$#,##0",
     decimal      |-> "#,##0.00",
     percent      |-> "0.00%",
     percent_int  |-> "0%"]

\* workbook.add_format({"num_format": pattern})
add_format(pattern) == [num_format |-> pattern]

s_percent == <<"p","e","r","c","e","n","t">>
s_income == <<"i","n","c","o","m","e">>
s_salary == <<"s","a","l","a","r","y">>
s_wage == <<"w","a","g","e">>

\* series.fillna(-9999)
fillna(values) ==
    [j \in 1..Len(values) |-> IF values[j] = NaN THEN Flt(FillValue, 0) ELSE values[j]]

\* (series.fillna(-9999) % 1 == 0).all()
AllIntegral(values) ==
    LET filled == fillna(values) IN \A j \in 1..Len(filled) : filled[j].frac = 0

\* the name rules tried in the other order: the mutant of NameFormat
NameFormat_currency_first(col_name) ==
    IF Contains(lower(col_name), s_income) \/ Contains(lower(col_name), s_salary)
           \/ Contains(lower(col_name), s_wage)
    THEN add_format(STYLEBOOK["currency"])
    ELSE IF "%" \in Range(col_name) \/ Contains(lower(col_name), s_percent)
    THEN add_format(STYLEBOOK["percent"])
    ELSE None

s_pct == <<"p","c","t">>

\* "pct" taken for a percent name as well: a mutant of NameFormat
NameFormat_pct(col_name) ==
    IF "%" \in Range(col_name) \/ Contains(lower(col_name), s_percent)
           \/ Contains(lower(col_name), s_pct)
    THEN add_format(STYLEBOOK["percent"])
    ELSE IF Contains(lower(col_name), s_income) \/ Contains(lower(col_name), s_salary)
                \/ Contains(lower(col_name), s_wage)
    THEN add_format(STYLEBOOK["currency"])
    ELSE None

\* the two elif branches on the column name; None when neither matches
NameFormat(col_name) ==
    IF "%" \in Range(col_name) \/ Contains(lower(col_name), s_percent)
    THEN add_format(STYLEBOOK["percent"])
    ELSE IF Contains(lower(col_name), s_income) \/ Contains(lower(col_name), s_salary)
                \/ Contains(lower(col_name), s_wage)
    THEN add_format(STYLEBOOK["currency"])
    ELSE None

\* the test without fillna, NaN % 1 being NaN: the mutant of DtypeFormat
DtypeFormat_no_fillna(series) ==
    IF series.dtype = "int64" THEN add_format(STYLEBOOK["thousands"])
    ELSE IF series.dtype = "float64"
    THEN IF \A j \in 1..Len(series.values) :
                series.values[j] # NaN /\ series.values[j].frac = 0
         THEN add_format(STYLEBOOK["thousands"])
         ELSE add_format(STYLEBOOK["decimal"])
    ELSE None

\* the branches on series.dtype
DtypeFormat(series) ==
    IF series.dtype = "int64" THEN add_format(STYLEBOOK["thousands"])
    ELSE IF series.dtype = "float64"
    THEN IF AllIntegral(series.values)
         THEN add_format(STYLEBOOK["thousands"])
         ELSE add_format(STYLEBOOK["decimal"])
    ELSE None

\* the if/elif chain that sets num_format for one column of the table bdf_name
ResolveFormat(formats, bdf_name, series) ==
    IF bdf_name \in DOMAIN formats /\ series.name \in DOMAIN formats[bdf_name]
    THEN LET style == formats[bdf_name][series.name]
         IN IF style \in DOMAIN STYLEBOOK
            THEN add_format(STYLEBOOK[style])
            ELSE add_format(style)
    ELSE IF NameFormat(series.name) # None THEN NameFormat(series.name)
    ELSE DtypeFormat(series)

Digits == <<"0","1","2","3","4","5","6","7","8","9">>

\* str(n) for n >= 0, as the f-string renders it
RECURSIVE str_int(_)
str_int(n) ==
    IF n < 10 THEN <<Digits[n + 1]>>
    ELSE str_int(n \div 10) \o <<Digits[(n % 10) + 1]>>

s_Sheet == <<"S","h","e","e","t">>

\* s[:n]
Slice(s, n) == SubSeq(s, 1, IF Len(s) < n THEN Len(s) ELSE n)

\* bdf.name for the frame at index idx (0-based)
BdfName(names, idx) ==
    IF names # <<>> THEN names[idx + 1] ELSE s_Sheet \o str_int(idx)

\* sheet_name before the friendly_names step
RawSheetName(names, tabs, idx) ==
    IF names # <<>>
    THEN IF BdfName(names, idx) \in DOMAIN tabs
         THEN Slice(tabs[BdfName(names, idx)], SheetNameMax)
         ELSE Slice(names[idx + 1], SheetNameMax)
    ELSE BdfName(names, idx)

\* sheet_name left raw whatever friendly_names says: the mutant of SheetName
SheetName_never_friendly(names, tabs, friendly, idx) == RawSheetName(names, tabs, idx)

\* the sheet_name handed to workbook.add_worksheet and to_excel
SheetName(names, tabs, friendly, idx) ==
    IF friendly THEN friendlize(RawSheetName(names, tabs, idx))
    ELSE RawSheetName(names, tabs, idx)

\* the cells worksheet.write(2, col_num + 1, ...) writes
HeaderCells(bdf, friendly) ==
    [col_num \in 1..Len(bdf.columns) |->
        [row |-> HeaderRow, col |-> (col_num - 1) + 1,
         value |-> IF friendly THEN friendlize(bdf.columns[col_num].name)
                   ELSE bdf.columns[col_num].name]]

\* the title: merge_range("B2:<lastcol>2") over more than one column, else
\* write(1, 1, title); title is bdf.name
TitleCell(bdf, bdf_name) ==
    [row |-> TitleRow, first_col |-> 1,
     last_col |-> IF Len(bdf.columns) > 1 THEN Len(bdf.columns) ELSE 1,
     value |-> bdf_name]

\* worksheet.autofilter(2, 1, bdf.shape[0], bdf.shape[1])
Autofilter(bdf) ==
    [first_row |-> 2, first_col |-> 1,
     last_row |-> bdf.nrows, last_col |-> Len(bdf.columns)]

\* one pass of the loop over list_of_frames: the worksheet it leaves
Worksheet(frames, formats, names, tabs, friendly, idx) ==
    LET bdf == frames[idx + 1]
        bdf_name == BdfName(names, idx)
    IN [sheet_name |-> SheetName(names, tabs, friendly, idx),
        bdf_name |-> bdf_name,
        \* to_excel(startrow=3, startcol=1, header=False, index=False)
        data |-> [first_row |-> StartRow, first_col |-> StartCol,
                  nrows |-> bdf.nrows, ncols |-> Len(bdf.columns)],
        header |-> HeaderCells(bdf, friendly),
        title |-> TitleCell(bdf, bdf_name),
        num_format |-> [idx2 \in 1..Len(bdf.columns) |->
                           ResolveFormat(formats, bdf_name, bdf.columns[idx2])],
        autofilter |-> Autofilter(bdf)]

(***************************************************************************)
(* Names used as arguments.                                                *)
(***************************************************************************)
\* "Population Totals"
s_Population_Totals ==
    <<"P","o","p","u","l","a","t","i","o","n"," ","T","o","t","a","l","s">>
\* "Population totals"
s_Population_totals ==
    <<"P","o","p","u","l","a","t","i","o","n"," ","t","o","t","a","l","s">>
s_pct_change == <<"p","c","t","_","c","h","a","n","g","e">>
s_Pct_Change == <<"P","c","t"," ","C","h","a","n","g","e">>
s_year == <<"y","e","a","r">>
s_population == <<"p","o","p","u","l","a","t","i","o","n">>
s_median_wage == <<"m","e","d","i","a","n","_","w","a","g","e">>
s_count == <<"c","o","u","n","t">>
s_pct_sign == <<"%">>
s_PERCENT_employed ==
    <<"P","E","R","C","E","N","T","_","e","m","p","l","o","y","e","d">>
s_wage_percent == <<"w","a","g","e","_","p","e","r","c","e","n","t">>
\* "Income_%"
s_Income_pct == <<"I","n","c","o","m","e","_","%">>
s_Avg_Salary == <<"A","v","g","_","S","a","l","a","r","y">>
s_WAGE == <<"W","A","G","E">>
s_notes == <<"n","o","t","e","s">>
s_Sales == <<"S","a","l","e","s">>
s_pop_totals == <<"p","o","p","_","t","o","t","a","l","s">>
\* "Employment_by_Industry_and_County_2020" (38 code points)
s_employment_long ==
    <<"E","m","p","l","o","y","m","e","n","t","_","b","y","_","I","n","d",
      "u","s","t","r","y","_","a","n","d","_","C","o","u","n","t","y","_",
      "2","0","2","0">>
\* "<U+0130>stanbul_population_by_district" (31 code points)
s_istanbul ==
    <<IDOT,"s","t","a","n","b","u","l","_","p","o","p","u","l","a","t","i",
      "o","n","_","b","y","_","d","i","s","t","r","i","c","t">>
\* "Median_Household_Income_by_Census_Tract" (39 code points)
s_tab_long ==
    <<"M","e","d","i","a","n","_","H","o","u","s","e","h","o","l","d","_",
      "I","n","c","o","m","e","_","b","y","_","C","e","n","s","u","s","_",
      "T","r","a","c","t">>

EmptyDict == [k \in {} |-> k]

(***************************************************************************)
(* The column format resolution applied to one column.                     *)
(***************************************************************************)
MaxValues == 3

RECURSIVE SeqsUpTo(_, _)
SeqsUpTo(S, n) ==
    IF n = 0 THEN {<<>>}
    ELSE LET shorter == SeqsUpTo(S, n - 1)
         IN shorter \cup {Append(t, x) : t \in {u \in shorter : Len(u) = n - 1}, x \in S}

\* NaN, 1.0, 2.5, 0.05
FloatValues == {NaN, Flt(1, 0), Flt(2, 50), Flt(0, 5)}

SeriesData ==
    {[dtype |-> "float64", values |-> v] : v \in SeqsUpTo(FloatValues, MaxValues)}
    \cup {[dtype |-> "int64", values |-> [j \in 1..n |-> IntCell(j)]] : n \in 0..MaxValues}
    \cup {[dtype |-> "object", values |-> [j \in 1..n |-> StrCell("x")]] : n \in 0..MaxValues}

FormatColNames ==
    {s_count, s_pct_sign, s_PERCENT_employed, s_wage_percent, s_Income_pct,
     s_Avg_Salary, s_WAGE, s_median_wage, s_median_hh_income, s_pct_change,
     s_notes, s_population}

\* col_format arguments for a column called col_name: none, an entry for
\* another column of the table "Sales", and entries for this column
FormatDicts(col_name) ==
    {EmptyDict, (s_Sales :> (s_year :> "percent"))}
    \cup {(s_Sales :> (col_name :> style)) :
              style \in {"percent", "currency_int", "thousands", "0.0"}}

FmtStart ==
    /\ c_name \in {s_Sales, s_Median_Income}
    /\ \E nm \in FormatColNames, sd \in SeriesData :
           /\ c_col = [name |-> nm, dtype |-> sd.dtype, values |-> sd.values]
           /\ c_col_format \in FormatDicts(nm)
    /\ c_num_format = None
    /\ c_pc = "start"

FmtIdle ==
    /\ c_name = <<>>
    /\ c_col = None
    /\ c_col_format = EmptyDict
    /\ c_num_format = None
    /\ c_pc = "idle"

ResolveColumn ==
    /\ c_pc = "start"
    /\ c_num_format' = ResolveFormat(c_col_format, c_name, c_col)
    /\ c_pc' = "resolved"
    /\ UNCHANGED <<c_name, c_col, c_col_format>>
    /\ UNCHANGED notFmt

(***************************************************************************)
(* save_dfs_as_xl on a list of frames.                                     *)
(***************************************************************************)
MaxFrames == 2
MaxRows == 2

\* one int64 column
FramePopulation(n) ==
    [columns |-> <<[name |-> s_population, dtype |-> "int64",
                    values |-> [j \in 1..n |-> IntCell(j)]]>>,
     nrows |-> n]

\* a float64 column of fractional values and an object column
FrameWages(n) ==
    [columns |-> <<[name |-> s_median_wage, dtype |-> "float64",
                    values |-> [j \in 1..n |-> Flt(j, 50)]],
                   [name |-> s_notes, dtype |-> "object",
                    values |-> [j \in 1..n |-> StrCell("x")]]>>,
     nrows |-> n]

\* an int64 column and the float64 column pct_change = [0.05, 0.10]
FramePctChange ==
    [columns |-> <<[name |-> s_year, dtype |-> "int64", values |-> <<IntCell(2020), IntCell(2021)>>],
                   [name |-> s_pct_change, dtype |-> "float64",
                    values |-> <<Flt(0, 5), Flt(0, 10)>>]>>,
     nrows |-> 2]

Frames ==
    {FramePopulation(n) : n \in 0..MaxRows} \cup {FrameWages(n) : n \in 0..MaxRows}
    \cup {FramePctChange}

SheetNameLists ==
    {<<>>,
     <<s_Population_Totals, s_Median_Income>>,
     <<s_employment_long, s_istanbul>>,
     <<s_median_hh_income>>}

TabNameDicts ==
    {EmptyDict,
     (s_Population_Totals :> s_pop_totals) @@ (s_employment_long :> s_tab_long)}

ColFormatDicts ==
    {EmptyDict, (s_Population_Totals :> (s_population :> "percent"))}

XlStart ==
    /\ list_of_frames \in SeqsUpTo(Frames, MaxFrames)
    /\ col_format \in ColFormatDicts
    /\ sheet_names \in SheetNameLists
    /\ tab_names \in TabNameDicts
    /\ friendly_names \in BOOLEAN
    /\ i = 0
    /\ sheets = <<>>
    /\ xl_pc = "loop"

XlIdle ==
    /\ list_of_frames = <<>>
    /\ col_format = EmptyDict
    /\ sheet_names = <<>>
    /\ tab_names = EmptyDict
    /\ friendly_names = TRUE
    /\ i = 0
    /\ sheets = <<>>
    /\ xl_pc = "idle"

\* one pass of the for loop: lines 58 to 188
AddSheet ==
    /\ xl_pc = "loop"
    /\ i < Len(list_of_frames)
    /\ sheet_names # <<>> => i < Len(sheet_names)
    /\ sheets' = Append(sheets,
           Worksheet(list_of_frames, col_format, sheet_names, tab_names,
                     friendly_names, i))
    /\ i' = i + 1
    /\ UNCHANGED <<xlArgs, xl_pc>>
    /\ UNCHANGED notXl

\* sheet_names[i] with fewer names than frames: IndexError leaves the call
SheetNameIndexError ==
    /\ xl_pc = "loop"
    /\ i < Len(list_of_frames)
    /\ sheet_names # <<>>
    /\ i >= Len(sheet_names)
    /\ xl_pc' = "raised"
    /\ UNCHANGED <<xlArgs, i, sheets>>
    /\ UNCHANGED notXl

\* writer.close() after the loop
Close ==
    /\ xl_pc = "loop"
    /\ i = Len(list_of_frames)
    /\ xl_pc' = "saved"
    /\ UNCHANGED <<xlArgs, i, sheets>>
    /\ UNCHANGED notXl

(***************************************************************************)
(* upload_to_google_sheets.                                                *)
(*                                                                         *)
(* Each call into gspread either returns or raises; g_calls lists the      *)
(* calls made, g_failed those that raised, g_printed the diagnostics       *)
(* printed.  g_pc is the call about to be made, "returned" once the        *)
(* function has returned and "raised" once an exception has left it.       *)
(* The title add_worksheet is given is not modelled.                       *)
(***************************************************************************)
\* sheet selectors: an int index or a str name
SheetSelectors ==
    {[type |-> "int", value |-> "0"], [type |-> "int", value |-> "1"],
     [type |-> "str", value |-> "Data"]}

GsStart ==
    /\ sheet \in SheetSelectors
    /\ new_book \in BOOLEAN
    /\ clear \in BOOLEAN
    /\ g_pc = "service_account"
    /\ g_printed = <<>>
    /\ g_calls = <<>>
    /\ g_failed = {}

GsIdle ==
    /\ sheet = [type |-> "int", value |-> "0"]
    /\ new_book = TRUE
    /\ clear = TRUE
    /\ g_pc = "idle"
    /\ g_printed = <<>>
    /\ g_calls = <<>>
    /\ g_failed = {}

\* where the function goes once a worksheet is selected: if not new_book and clear
AfterSelect(nb, cl) == IF ~nb /\ cl THEN "clear" ELSE "update"

\* a call that raised outside every try block: the exception leaves the function
Propagate(call) ==
    /\ g_pc' = "raised"
    /\ g_failed' = g_failed \cup {call}
    /\ UNCHANGED g_printed

\* a call that raised inside a try block whose handler prints and returns
PrintAndReturn(call, message) ==
    /\ g_pc' = "returned"
    /\ g_failed' = g_failed \cup {call}
    /\ g_printed' = Append(g_printed, message)

\* try: gc = gs.service_account(filename=authfile)
GsServiceAccount ==
    /\ g_pc = "service_account"
    /\ g_calls' = Append(g_calls, "service_account")
    /\ \E ok \in BOOLEAN :
           IF ok
           THEN /\ g_pc' = IF new_book THEN "create" ELSE "open"
                /\ UNCHANGED <<g_printed, g_failed>>
           ELSE PrintAndReturn("service_account", "Could not connect,check filename")
    /\ UNCHANGED <<gsArgs, notGs>>

\* if new_book: sh = gc.create(bookname), outside any try
GsCreate ==
    /\ g_pc = "create"
    /\ g_calls' = Append(g_calls, "create")
    /\ \E ok \in BOOLEAN :
           IF ok
           THEN /\ g_pc' = "share"
                /\ UNCHANGED <<g_printed, g_failed>>
           ELSE Propagate("create")
    /\ UNCHANGED <<gsArgs, notGs>>

\* sh.share(...), outside any try
GsShare ==
    /\ g_pc = "share"
    /\ g_calls' = Append(g_calls, "share")
    /\ \E ok \in BOOLEAN :
           IF ok
           THEN /\ g_pc' = "open"
                /\ UNCHANGED <<g_printed, g_failed>>
           ELSE Propagate("share")
    /\ UNCHANGED <<gsArgs, notGs>>

\* try: wks = gc.open(bookname)
GsOpen ==
    /\ g_pc = "open"
    /\ g_calls' = Append(g_calls, "open")
    /\ \E ok \in BOOLEAN :
           IF ok
           THEN /\ g_pc' = "select"
                /\ UNCHANGED <<g_printed, g_failed>>
           ELSE PrintAndReturn("open", "Could not open workbook, check workbook name.")
    /\ UNCHANGED <<gsArgs, notGs>>

\* isinstance(sheet, int): wks.get_worksheet(sheet), outside any try
GsGetWorksheet ==
    /\ g_pc = "select"
    /\ sheet.type = "int"
    /\ g_calls' = Append(g_calls, "get_worksheet")
    /\ \E ok \in BOOLEAN :
           IF ok
           THEN /\ g_pc' = AfterSelect(new_book, clear)
                /\ UNCHANGED <<g_printed, g_failed>>
           ELSE Propagate("get_worksheet")
    /\ UNCHANGED <<gsArgs, notGs>>

\* else: try: wks.worksheet(sheet); its handler goes on to add_worksheet
GsWorksheet ==
    /\ g_pc = "select"
    /\ sheet.type # "int"
    /\ g_calls' = Append(g_calls, "worksheet")
    /\ \E ok \in BOOLEAN :
           IF ok
           THEN /\ g_pc' = AfterSelect(new_book, clear)
                /\ UNCHANGED <<g_printed, g_failed>>
           ELSE /\ g_pc' = "add_worksheet"
                /\ g_failed' = g_failed \cup {"worksheet"}
                /\ UNCHANGED g_printed
    /\ UNCHANGED <<gsArgs, notGs>>

\* in the handler: wks.add_worksheet(title=...), then print(f"Exception: {e}")
GsAddWorksheet ==
    /\ g_pc = "add_worksheet"
    /\ g_calls' = Append(g_calls, "add_worksheet")
    /\ \E ok \in BOOLEAN :
           IF ok
           THEN /\ g_pc' = AfterSelect(new_book, clear)
                /\ g_printed' = Append(g_printed, "Exception: worksheet")
                /\ UNCHANGED g_failed
           ELSE Propagate("add_worksheet")
    /\ UNCHANGED <<gsArgs, notGs>>

\* if not new_book and clear: worksheet.clear(), outside any try
GsClear ==
    /\ g_pc = "clear"
    /\ g_calls' = Append(g_calls, "clear")
    /\ \E ok \in BOOLEAN :
           IF ok
           THEN /\ g_pc' = "update"
                /\ UNCHANGED <<g_printed, g_failed>>
           ELSE Propagate("clear")
    /\ UNCHANGED <<gsArgs, notGs>>

\* try: worksheet.update(...); print("Done") and return either way
GsUpdate ==
    /\ g_pc = "update"
    /\ g_calls' = Append(g_calls, "update")
    /\ \E ok \in BOOLEAN :
           IF ok
           THEN /\ g_pc' = "returned"
                /\ g_printed' = Append(g_printed, "Success!")
                /\ UNCHANGED g_failed
           ELSE PrintAndReturn("update", "Could not upload...")
    /\ UNCHANGED <<gsArgs, notGs>>

(***************************************************************************)
(* upload_to_sql.                                                          *)
(*                                                                         *)
(* The frame has df_len rows, indexed 0..df_len-1 by reset_index().  Each  *)
(* crsr.execute either returns or raises; an INSERT into a table that does *)
(* not exist raises.  Rows inserted are pending until con.commit().        *)
(* q_calls lists the cursor and connection calls in order: "drop",         *)
(* "create", "commit", and the index of the row for an INSERT.  The        *)
(* renaming of the columns and the conversion of the values to str are not *)
(* modelled; chunk_print_size is a positive number of rows.                *)
(***************************************************************************)
MaxSqlRows == 3
MaxChunk == 2

Call(kind, row) == [call |-> kind, row |-> row]

SqlStart ==
    /\ df_len \in 0..MaxSqlRows
    /\ drop \in BOOLEAN
    /\ chunk_print_size \in 1..MaxChunk
    /\ q_pc = IF drop THEN "drop" ELSE "rows"
    /\ index = 0
    /\ q_table_exists \in BOOLEAN
    /\ q_pending = {}
    /\ q_committed = {}
    /\ q_calls = <<>>
    /\ q_failed = {}
    /\ q_printed = <<>>

SqlIdle ==
    /\ df_len = 0
    /\ drop = TRUE
    /\ chunk_print_size = 1
    /\ q_pc = "idle"
    /\ index = 0
    /\ q_table_exists = FALSE
    /\ q_pending = {}
    /\ q_committed = {}
    /\ q_calls = <<>>
    /\ q_failed = {}
    /\ q_printed = <<>>

\* the loop stopped at the first row that fails: the mutant of AfterRowFailure
AfterRowFailure_break(idx, n) == n

\* the index the loop goes on with after the except block of a row
AfterRowFailure(idx, n) == idx + 1

\* if drop == True: try: DROP TABLE, commit
SqlDrop ==
    /\ q_pc = "drop"
    /\ \E ok \in BOOLEAN :
           IF ok
           THEN /\ q_table_exists' = FALSE
                /\ q_calls' = q_calls \o <<Call("drop", -1), Call("commit", -1)>>
                /\ q_printed' = Append(q_printed, "Dropped!")
           ELSE /\ q_calls' = Append(q_calls, Call("drop", -1))
                /\ q_printed' = Append(q_printed, "No existing table to drop.")
                /\ UNCHANGED q_table_exists
    /\ q_pc' = "create"
    /\ UNCHANGED <<sqlArgs, index, q_pending, q_committed, q_failed, notSql>>

\* try: CREATE TABLE, commit
SqlCreate ==
    /\ q_pc = "create"
    /\ \E ok \in BOOLEAN :
           IF ok
           THEN /\ q_table_exists' = TRUE
                /\ q_calls' = q_calls \o <<Call("create", -1), Call("commit", -1)>>
                /\ q_printed' = Append(q_printed, "Done.")
           ELSE /\ q_calls' = Append(q_calls, Call("create", -1))
                /\ q_printed' = Append(q_printed, "Could not create new table.")
                /\ UNCHANGED q_table_exists
    /\ q_pc' = "rows"
    /\ UNCHANGED <<sqlArgs, index, q_pending, q_committed, q_failed, notSql>>

\* the progress line printed inside the try of a row
Progress(idx, printed) ==
    IF idx % chunk_print_size = 0 THEN Append(printed, "out of") ELSE printed

\* one pass of the loop over df.reset_index().iterrows()
SqlInsertRow ==
    /\ q_pc = "rows"
    /\ index < df_len
    /\ q_calls' = Append(q_calls, Call("insert", index))
    /\ \E ok \in BOOLEAN :
           IF ok /\ q_table_exists
           THEN /\ q_pending' = q_pending \cup {index}
                /\ q_printed' = Progress(index, q_printed)
                /\ index' = index + 1
                /\ UNCHANGED q_failed
           ELSE /\ q_failed' = q_failed \cup {index}
                /\ q_printed' = Append(Progress(index, q_printed), "Could not upload")
                /\ index' = AfterRowFailure(index, df_len)
                /\ UNCHANGED q_pending
    /\ UNCHANGED <<sqlArgs, q_pc, q_table_exists, q_committed, notSql>>

\* con.commit() after the loop, then print("Done!")
SqlCommit ==
    /\ q_pc = "rows"
    /\ index >= df_len
    /\ q_calls' = Append(q_calls, Call("commit", -1))
    /\ q_committed' = q_committed \cup q_pending
    /\ q_pending' = {}
    /\ q_printed' = Append(q_printed, "Done!")
    /\ q_pc' = "done"
    /\ UNCHANGED <<sqlArgs, index, q_table_exists, q_failed, notSql>>

(***************************************************************************)
(* make_table_spatial.                                                     *)
(*                                                                         *)
(* m_table says what the table has: the column wkt_geom_col names, the     *)
(* column geom computed from it, the column PKEY_IDX, a primary key, the   *)
(* spatial index; m_committed is m_table as of the last                    *)
(* con.commit().  A statement raises when what it adds is there already or *)
(* what it needs is missing, and may raise for any other reason.           *)
(***************************************************************************)
DdlSteps == {"geom", "identity", "pkey", "sidx"}

Tables ==
    {t \in [wkt : BOOLEAN, geom : BOOLEAN, identity : BOOLEAN, pkey : BOOLEAN,
             sidx : BOOLEAN] :
        /\ t.geom => t.wkt
        /\ t.sidx => (t.geom /\ t.pkey)}

SpStart ==
    /\ m_pc = "geom"
    /\ m_table \in Tables
    /\ m_committed = m_table
    /\ m_attempted = <<>>
    /\ m_raised = {}
    /\ m_printed = <<>>

SpIdle ==
    /\ m_pc = "idle"
    /\ m_table = [wkt |-> FALSE, geom |-> FALSE, identity |-> FALSE, pkey |-> FALSE,
                  sidx |-> FALSE]
    /\ m_committed = m_table
    /\ m_attempted = <<>>
    /\ m_raised = {}
    /\ m_printed = <<>>

\* whether the server can carry the statement out on table t
Feasible(step, t) ==
    CASE step = "geom" -> t.wkt /\ ~t.geom
      [] step = "identity" -> ~t.identity
      [] step = "pkey" -> t.identity /\ ~t.pkey
      [] step = "sidx" -> t.geom /\ t.pkey /\ ~t.sidx

\* where the second try block's handler leaves the function: at the print
\* and commit that end it, whichever of its three statements raised
AfterSpatialFailure(step) == "final"

\* first try block: ALTER TABLE ... ADD geom ..., commit
SpGeometryColumn ==
    /\ m_pc = "geom"
    /\ m_attempted' = Append(m_attempted, "geom")
    /\ \E ok \in BOOLEAN :
           IF ok /\ Feasible("geom", m_table)
           THEN /\ m_table' = [m_table EXCEPT !.geom = TRUE]
                /\ m_committed' = m_table'
                /\ UNCHANGED <<m_raised, m_printed>>
           ELSE /\ m_raised' = m_raised \cup {"geom"}
                /\ m_printed' = Append(m_printed, "Error on geometry column.")
                /\ UNCHANGED <<m_table, m_committed>>
    /\ m_pc' = "identity"
    /\ UNCHANGED notSp

\* second try block: ALTER TABLE ... ADD PKEY_IDX INT IDENTITY
SpIdentityColumn ==
    /\ m_pc = "identity"
    /\ m_attempted' = Append(m_attempted, "identity")
    /\ \E ok \in BOOLEAN :
           IF ok /\ Feasible("identity", m_table)
           THEN /\ m_table' = [m_table EXCEPT !.identity = TRUE]
                /\ m_pc' = "pkey"
                /\ UNCHANGED <<m_raised, m_printed>>
           ELSE /\ m_raised' = m_raised \cup {"identity"}
                /\ m_printed' = Append(m_printed, "Error on spatial index.")
                /\ m_pc' = AfterSpatialFailure("identity")
                /\ UNCHANGED m_table
    /\ UNCHANGED <<m_committed, notSp>>

\* second try block: ALTER TABLE ... ADD CONSTRAINT ... PRIMARY KEY, commit
SpPrimaryKey ==
    /\ m_pc = "pkey"
    /\ m_attempted' = Append(m_attempted, "pkey")
    /\ \E ok \in BOOLEAN :
           IF ok /\ Feasible("pkey", m_table)
           THEN /\ m_table' = [m_table EXCEPT !.pkey = TRUE]
                /\ m_committed' = m_table'
                /\ m_pc' = "sidx"
                /\ UNCHANGED <<m_raised, m_printed>>
           ELSE /\ m_raised' = m_raised \cup {"pkey"}
                /\ m_printed' = Append(m_printed, "Error on spatial index.")
                /\ m_pc' = AfterSpatialFailure("pkey")
                /\ UNCHANGED <<m_table, m_committed>>
    /\ UNCHANGED notSp

\* second try block: CREATE SPATIAL INDEX
SpSpatialIndex ==
    /\ m_pc = "sidx"
    /\ m_attempted' = Append(m_attempted, "sidx")
    /\ \E ok \in BOOLEAN :
           IF ok /\ Feasible("sidx", m_table)
           THEN /\ m_table' = [m_table EXCEPT !.sidx = TRUE]
                /\ m_pc' = "final"
                /\ UNCHANGED <<m_raised, m_printed>>
           ELSE /\ m_raised' = m_raised \cup {"sidx"}
                /\ m_printed' = Append(m_printed, "Error on spatial index.")
                /\ m_pc' = AfterSpatialFailure("sidx")
                /\ UNCHANGED m_table
    /\ UNCHANGED <<m_committed, notSp>>

\* print("Done!"), con.commit()
SpDone ==
    /\ m_pc = "final"
    /\ m_printed' = Append(m_printed, "Done!")
    /\ m_committed' = m_table
    /\ m_pc' = "done"
    /\ UNCHANGED <<m_table, m_attempted, m_raised, notSp>>

(***************************************************************************)
(* Specifications: one per function, the others idle.                      *)
(***************************************************************************)
FrInit == FrStart /\ FmtIdle /\ XlIdle /\ GsIdle /\ SqlIdle /\ SpIdle
FrNext == FriendlizeCall \/ FriendlizeAgain
SpecFriendlize == FrInit /\ [][FrNext]_vars

FmtInit == FmtStart /\ FrIdle /\ XlIdle /\ GsIdle /\ SqlIdle /\ SpIdle
FmtNext == ResolveColumn
SpecFormat == FmtInit /\ [][FmtNext]_vars

Init == XlStart /\ FrIdle /\ FmtIdle /\ GsIdle /\ SqlIdle /\ SpIdle
Next == AddSheet \/ SheetNameIndexError \/ Close
Spec == Init /\ [][Next]_vars

GsInit == GsStart /\ FrIdle /\ FmtIdle /\ XlIdle /\ SqlIdle /\ SpIdle
GsNext ==
    \/ GsServiceAccount \/ GsCreate \/ GsShare \/ GsOpen \/ GsGetWorksheet
    \/ GsWorksheet \/ GsAddWorksheet \/ GsClear \/ GsUpdate
SpecSheets == GsInit /\ [][GsNext]_vars

SqlInit == SqlStart /\ FrIdle /\ FmtIdle /\ XlIdle /\ GsIdle /\ SpIdle
SqlNext == SqlDrop \/ SqlCreate \/ SqlInsertRow \/ SqlCommit
SpecSql == SqlInit /\ [][SqlNext]_vars

SpInit == SpStart /\ FrIdle /\ FmtIdle /\ XlIdle /\ GsIdle /\ SqlIdle
SpNext ==
    SpGeometryColumn \/ SpIdentityColumn \/ SpPrimaryKey \/ SpSpatialIndex \/ SpDone
SpecSpatial == SpInit /\ [][SpNext]_vars


(***************************************************************************)
(* C10                                                                     *)
(***************************************************************************)
\* str.upper() on one code point (U+0130 is its own upper case)
UpperChar(c) ==
    IF c \in Range(LowerAlpha) THEN <<UpperAlpha[IndexIn(c, LowerAlpha)]>>
    ELSE <<c>>

IsUpperCase(c) == c \in Range(UpperAlpha) \/ c = IDOT
IsAscii(s) == \A p \in 1..Len(s) : s[p] \notin {IDOT, COMBDOT}

\* s with only its first code point upper-cased and all others lower-cased
UpperFirstLowerRest(s) ==
    IF s = <<>> THEN <<>> ELSE UpperChar(Head(s)) \o lower(Tail(s))

NoUpperAfterFirst(s) == \A p \in 2..Len(s) : ~IsUpperCase(s[p])

C10_Examples ==
    /\ f_in = s_median_income => f_out = s_Median_Income
    /\ f_in = s_Median_Income => f_out = s_Median_income
    /\ f_in = s_Median_Income => f_out # f_in

C10_IdempotentOnlyIfLower ==
    (f_pc = "twice" /\ f_again = f_out) => NoUpperAfterFirst(f_out)

\* C10 as claimed: friendlize returns every underscore-free input with only its
\* first character upper-cased and the others lower-cased, maps
\* "median_income" to "Median Income" and "Median Income" to "Median income",
\* and friendlize(friendlize(s)) = friendlize(s) only when friendlize(s) has
\* no upper-case letter after its first character.
C10_AsClaimed ==
    f_pc # "start" =>
        /\ "_" \notin Range(f_in) => f_out = UpperFirstLowerRest(f_in)
        /\ C10_Examples
        /\ C10_IdempotentOnlyIfLower

\* C10 amended: the same, the underscore-free case stated for ASCII inputs
\* (str.lower() turns U+0130 into two code points, which capitalize() does
\* not put back together).
C10_Friendlize ==
    f_pc # "start" =>
        /\ ("_" \notin Range(f_in) /\ IsAscii(f_in)) => f_out = UpperFirstLowerRest(f_in)
        /\ C10_Examples
        /\ C10_IdempotentOnlyIfLower

\* friendlize was applied twice to "Median Income", which it does not keep,
\* and to an input its result is a fixed point of.
C10_Witness ==
    /\ f_pc = "twice"
    /\ f_in = s_Median_Income
    /\ f_out = s_Median_income
    /\ f_again = f_out


(***************************************************************************)
(* C1, C9: the column format resolution                                    *)
(***************************************************************************)
\* the column names of FormatColNames that hold "%" or "percent" in any case
PercentNames == {s_pct_sign, s_PERCENT_employed, s_wage_percent, s_Income_pct}
\* those that hold "income", "salary" or "wage" in any case
CurrencyNames ==
    {s_wage_percent, s_Income_pct, s_Avg_Salary, s_WAGE, s_median_wage,
     s_median_hh_income}
CatalogStyles ==
    {"thousands", "currency", "currency_int", "decimal", "percent", "percent_int"}

HasOverride ==
    /\ c_name \in DOMAIN c_col_format
    /\ c_col.name \in DOMAIN c_col_format[c_name]

OverrideValue == c_col_format[c_name][c_col.name]

\* C1: the format of a column is decided by the first rule that matches, in
\* the order override, percent name, currency name: an override gives the
\* catalog pattern it names or else itself as a pattern, whatever the name
\* and dtype; without one a percent name gives the percent pattern, even when
\* the name is a currency name too; without either a currency name gives the
\* currency pattern.
C1_FirstMatchWins ==
    c_pc = "resolved" =>
        /\ HasOverride =>
               /\ OverrideValue \in CatalogStyles =>
                      c_num_format = [num_format |-> STYLEBOOK[OverrideValue]]
               /\ OverrideValue \notin CatalogStyles =>
                      c_num_format = [num_format |-> OverrideValue]
               /\ OverrideValue = "percent" => c_num_format.num_format = "0.00%"
        /\ (~HasOverride /\ c_col.name \in PercentNames) =>
               c_num_format = [num_format |-> "0.00%"]
        /\ (~HasOverride /\ c_col.name \notin PercentNames
                /\ c_col.name \in CurrencyNames) =>
               c_num_format = [num_format |-> "$#,##0.00"]

\* the override "percent" on the int64 column "count" of "Sales" resolved to
\* the percent pattern
C1_Witness ==
    /\ c_pc = "resolved"
    /\ c_name = s_Sales
    /\ c_col.name = s_count
    /\ c_col.dtype = "int64"
    /\ HasOverride
    /\ OverrideValue = "percent"
    /\ c_num_format = [num_format |-> "0.00%"]

HasFraction(values) ==
    \E j \in 1..Len(values) : values[j] # NaN /\ values[j].frac # 0

\* C9: without an override and with a name that is neither a percent nor a
\* currency name, a float64 column resolves to thousands when no value has a
\* fractional part (missing values have none) and to decimal otherwise, an
\* int64 column to thousands, any other dtype to no format.
C9_DtypeRule ==
    (c_pc = "resolved" /\ ~HasOverride
         /\ c_col.name \notin (PercentNames \cup CurrencyNames)) =>
        /\ (c_col.dtype = "float64" /\ ~HasFraction(c_col.values)) =>
               c_num_format = [num_format |-> "#,###"]
        /\ (c_col.dtype = "float64" /\ HasFraction(c_col.values)) =>
               c_num_format = [num_format |-> "#,##0.00"]
        /\ c_col.dtype = "int64" => c_num_format = [num_format |-> "#,###"]
        /\ c_col.dtype \notin {"int64", "float64"} => c_num_format = None

\* the float64 column [1.0, 2.5] resolved to decimal
C9_Witness ==
    /\ c_pc = "resolved"
    /\ ~HasOverride
    /\ c_col.name = s_count
    /\ c_col.dtype = "float64"
    /\ c_col.values = <<Flt(1, 0), Flt(2, 50)>>
    /\ c_num_format = [num_format |-> "#,##0.00"]

(***************************************************************************)
(* C2, C3, C7, C8: save_dfs_as_xl                                          *)
(***************************************************************************)
SheetIndexes == 1..Len(sheets)

\* the display name of the k-th sheet added
DisplayName(k) ==
    IF sheet_names # <<>> THEN sheet_names[k] ELSE s_Sheet \o str_int(k - 1)

HasTabName(k) == sheet_names # <<>> /\ DisplayName(k) \in DOMAIN tab_names

\* the identifier before any friendly naming: the tab_names entry when there
\* is one, else the display name, cut to 31 code points
RawIdentifier(k) ==
    IF HasTabName(k) THEN Slice(tab_names[DisplayName(k)], 31)
    ELSE IF sheet_names # <<>> THEN Slice(DisplayName(k), 31)
    ELSE DisplayName(k)

ColumnNames(k) ==
    [c \in 1..Len(list_of_frames[k].columns) |-> list_of_frames[k].columns[c].name]

HeaderValues(k) == [c \in 1..Len(sheets[k].header) |-> sheets[k].header[c].value]

FriendlyColumnNames(k) ==
    [c \in 1..Len(ColumnNames(k)) |-> friendlize(ColumnNames(k)[c])]

\* two tables named "Population Totals" and "Median Income", friendly names,
\* no overrides, one of the tables with the float64 column pct_change =
\* [0.05, 0.10]: the call has returned
C2_Scenario ==
    /\ xl_pc = "saved"
    /\ sheet_names = <<s_Population_Totals, s_Median_Income>>
    /\ friendly_names
    /\ col_format = EmptyDict
    /\ tab_names = EmptyDict
    /\ Len(list_of_frames) = 2
    /\ \E k \in 1..2 : list_of_frames[k] = FramePctChange

\* the header and the format of the column pct_change, in every sheet of the
\* scenario that has it
PctChangeColumns(header, pattern) ==
    \A k \in SheetIndexes :
        list_of_frames[k] = FramePctChange =>
            /\ sheets[k].header[2].value = header
            /\ sheets[k].num_format[2] = [num_format |-> pattern]

\* C2 as claimed: the scenario gives two sheets titled "Population Totals"
\* and "Median Income", the header "Pct Change" and the percent pattern on
\* the column pct_change.
C2_AsClaimed ==
    C2_Scenario =>
        /\ Len(sheets) = 2
        /\ sheets[1].sheet_name = s_Population_Totals
        /\ sheets[2].sheet_name = s_Median_Income
        /\ PctChangeColumns(s_Pct_Change, "0.00%")

\* C2 amended: the scenario gives two sheets whose identifiers are
\* "Population totals" and "Median income" and whose title cells hold
\* "Population Totals" and "Median Income", the header "Pct Change" and the
\* decimal pattern on the column pct_change.
C2_EndToEnd ==
    C2_Scenario =>
        /\ Len(sheets) = 2
        /\ sheets[1].sheet_name = s_Population_totals
        /\ sheets[2].sheet_name = s_Median_income
        /\ sheets[1].title.value = s_Population_Totals
        /\ sheets[2].title.value = s_Median_Income
        /\ PctChangeColumns(s_Pct_Change, "#,##0.00")

\* the scenario has run, pct_change in the second table
C2_Witness ==
    /\ C2_Scenario
    /\ list_of_frames[2] = FramePctChange
    /\ Len(sheets) = 2

\* C3 as claimed: the autofilter of every sheet spans the header row through
\* the last data row and all data columns: rows 2..(2+n), columns 1..k for a
\* table of n rows and k columns written from row 3, column 1.
C3_AutofilterCoversData ==
    \A k \in SheetIndexes :
        LET sh == sheets[k]
        IN /\ sh.autofilter.first_row = 2
           /\ sh.autofilter.first_col = 1
           /\ sh.autofilter.last_row = 2 + sh.data.nrows
           /\ sh.autofilter.last_col = sh.data.ncols
           /\ \A r \in sh.data.first_row..(sh.data.first_row + sh.data.nrows - 1) :
                  sh.autofilter.first_row <= r /\ r <= sh.autofilter.last_row

\* C7 as claimed: with friendly names the title cell, every header and, only
\* when tab_names has no entry for the display name, the identifier are
\* friendlized; without, title, headers and identifier are the raw names, the
\* identifier cut to 31.
C7_AsClaimed ==
    \A k \in SheetIndexes :
        /\ friendly_names =>
               /\ sheets[k].title.value = friendlize(DisplayName(k))
               /\ HeaderValues(k) = FriendlyColumnNames(k)
               /\ sheets[k].sheet_name =
                      IF HasTabName(k) THEN RawIdentifier(k)
                      ELSE friendlize(RawIdentifier(k))
        /\ ~friendly_names =>
               /\ sheets[k].title.value = DisplayName(k)
               /\ HeaderValues(k) = ColumnNames(k)
               /\ sheets[k].sheet_name = RawIdentifier(k)

\* C7 amended: with friendly names every header and the identifier, taken
\* from tab_names or not, are friendlized and the title cell is the raw
\* display name; without, title, headers and identifier are the raw names,
\* the identifier cut to 31.
C7_FriendlyNames ==
    \A k \in SheetIndexes :
        /\ sheets[k].title.value = DisplayName(k)
        /\ friendly_names =>
               /\ HeaderValues(k) = FriendlyColumnNames(k)
               /\ sheets[k].sheet_name = friendlize(RawIdentifier(k))
        /\ ~friendly_names =>
               /\ HeaderValues(k) = ColumnNames(k)
               /\ sheets[k].sheet_name = RawIdentifier(k)

\* with friendly names, "Population Totals" was given the tab name
\* "pop_totals": the identifier is "Pop Totals", the title cell is not
\* friendlized, a header is
C7_Witness ==
    /\ friendly_names
    /\ Len(sheets) >= 1
    /\ DisplayName(1) = s_Population_Totals
    /\ HasTabName(1)
    /\ sheets[1].sheet_name = <<"P","o","p"," ","T","o","t","a","l","s">>
    /\ sheets[1].title.value # friendlize(DisplayName(1))
    /\ \E c \in 1..Len(sheets[1].header) :
           sheets[1].header[c].value # list_of_frames[1].columns[c].name

\* C8 as claimed: every identifier handed to add_worksheet has at most 31
\* code points.
C8_IdentifierAtMost31 ==
    \A k \in SheetIndexes : Len(sheets[k].sheet_name) <= 31

(***************************************************************************)
(* C4: make_table_spatial                                                  *)
(***************************************************************************)
ErrorPrints == SelectSeq(m_printed, LAMBDA line : line # "Done!")

\* C4 as claimed: whichever statements raise, the four statements are each
\* attempted, every failure is printed and the function returns.
C4_StepsIndependent ==
    m_pc = "done" =>
        /\ m_attempted = <<"geom", "identity", "pkey", "sidx">>
        /\ Len(ErrorPrints) = Cardinality(m_raised)

(***************************************************************************)
(* C5: upload_to_google_sheets                                             *)
(***************************************************************************)
\* C5 as claimed: a failing external call is caught where it is made and
\* printed, and no exception leaves the function, whatever new_book, clear
\* and the type of sheet.
C5_NeverRaises ==
    /\ g_pc # "raised"
    /\ (g_pc = "returned" /\ g_failed # {}) => g_printed # <<>>

(***************************************************************************)
(* C6: upload_to_sql                                                       *)
(***************************************************************************)
IsInsert(c) == c.call = "insert"
InsertCalls == SelectSeq(q_calls, IsInsert)

\* the calls made after the last INSERT (all of them when there was none)
RECURSIVE AfterLastInsert(_)
AfterLastInsert(calls) ==
    IF calls = <<>> \/ IsInsert(calls[Len(calls)]) THEN <<>>
    ELSE Append(AfterLastInsert(SubSeq(calls, 1, Len(calls) - 1)), calls[Len(calls)])

\* C6: the rows 0..N-1 are each attempted once, in order, whichever INSERTs
\* raise; nothing is committed or rolled back between them; one commit
\* follows the last attempt, and every row whose INSERT did not raise is
\* committed by it.
C6_ContinueOnRowFailure ==
    /\ q_pc = "rows" =>
           /\ InsertCalls = [r \in 1..index |-> Call("insert", r - 1)]
           /\ AfterLastInsert(q_calls) = <<>> \/ index = 0
           /\ q_pending \cup q_failed = 0..(index - 1)
    /\ q_pc = "done" =>
           /\ InsertCalls = [r \in 1..df_len |-> Call("insert", r - 1)]
           /\ df_len > 0 => AfterLastInsert(q_calls) = <<Call("commit", -1)>>
           /\ q_calls[Len(q_calls)] = Call("commit", -1)
           /\ q_committed = (0..(df_len - 1)) \ q_failed
           /\ q_pending = {}

\* of three rows the INSERT of row 1 raised; rows 0 and 2 are committed
C6_Witness ==
    /\ q_pc = "done"
    /\ df_len = 3
    /\ q_failed = {1}
    /\ q_committed = {0, 2}
====
